---- MODULE Spec2Model ----
(***************************************************************************)
(* Model of example_server.py: a WebSocket server that polls one CSV file  *)
(* and pushes its parsed contents to every connected client.               *)
(*                                                                         *)
(* Specifications:                                                         *)
(*   ParseSpec  - the pure parsing functions (parse_timestamp,             *)
(*                read_csv_data) applied to bounded inputs;                *)
(*   Spec       - the server: the external file, the client connections    *)
(*                and one file_monitor coroutine per connection.           *)
(*   FairSpec   - Spec with the fairness the asyncio event loop gives a    *)
(*                coroutine that is runnable.                              *)
(***************************************************************************)
EXTENDS Integers, Sequences, FiniteSets, TLC

(***************************************************************************)
(* Bounds of the model.                                                    *)
(***************************************************************************)
\* MAX_POINTS is 1000 in the source (line 32); the model keeps the same
\* truncation rule with a small capacity so that files longer than the
\* capacity are explored.
MAX_POINTS == 2
\* Longest file (in rows) given to read_csv_data in ParseSpec.
MaxRows == 4
\* Modification times range over 0..MaxMtime (os.path.getmtime is a float
\* number of seconds since the epoch; 0 is the epoch itself).
MaxMtime == 1
\* Number of changes the environment makes to the file in one behaviour.
MaxMods == 2
\* Consecutive not-found ticks counted (the count saturates).
MaxMisses == 2

\* The WebSocket connections accepted in one behaviour.
Sessions == {"c1", "c2"}
Mtimes == 0..MaxMtime

(***************************************************************************)
(* Raw CSV fields.  A field is a string in the source; the model keeps what *)
(* the parsers look at:                                                    *)
(*   k = "num"  a non-negative decimal literal without '-', e.g. "2.5";    *)
(*              t is its value in tenths                                   *)
(*   k = "neg"  a decimal literal with a leading '-', e.g. "-2.5";         *)
(*              t is its magnitude in tenths                               *)
(*   k = "iso"  an ISO calendar timestamp "2025-10-19 17:50:21.143882";    *)
(*              t is the instant it denotes, in tenths of a millisecond    *)
(*   k = "nan"  the literal "nan", which float() accepts                   *)
(*   k = "text" any other text without '-', e.g. "abc"                     *)
(***************************************************************************)
Field(k, t) == [k |-> k, t |-> t]

\* A Python float: either NaN or a finite value, kept in tenths.
NaN == [nan |-> TRUE, t |-> 0]
Fl(t) == [nan |-> FALSE, t |-> t]

\* The result of a call that may raise ValueError.
Raised == [ok |-> FALSE, v |-> 0]
Returned(v) == [ok |-> TRUE, v |-> v]

\* '-' in timestamp_str (line 53).
HasDash(f) == f.k \in {"neg", "iso"}

\* parse_timestamp (lines 40-62): milliseconds since the epoch, or ValueError.
\* datetime.fromisoformat raises on anything that is not an ISO timestamp;
\* float() raises on text; int() raises on NaN; every exception is re-raised
\* as ValueError (lines 61-62).  int() truncates.
parse_timestamp(f) ==
    IF HasDash(f)
    THEN IF f.k = "iso" THEN Returned(f.t \div 10) ELSE Raised
    ELSE IF f.k = "num" THEN Returned(f.t \div 10) ELSE Raised

\* float(row[1]) (line 77).
parse_value(f) ==
    CASE f.k = "num" -> Returned(Fl(f.t))
      [] f.k = "neg" -> Returned(Fl(0 - f.t))
      [] f.k = "nan" -> Returned(NaN)
      [] OTHER       -> [ok |-> FALSE, v |-> Fl(0)]

\* The loop body of read_csv_data (lines 73-81): the point [timestamp, value]
\* of a row, or nothing for a row that is skipped.
parse_row(row) ==
    IF Len(row) >= 2 /\ parse_timestamp(row[1]).ok /\ parse_value(row[2]).ok
    THEN Returned(<<parse_timestamp(row[1]).v, parse_value(row[2]).v>>)
    ELSE [ok |-> FALSE, v |-> <<0, Fl(0)>>]

\* Mutant: the first malformed row ends the loop (a break instead of a
\* continue).
RECURSIVE collect_rows_break(_)
collect_rows_break(rows) ==
    IF rows = <<>> THEN <<>>
    ELSE IF parse_row(Head(rows)).ok
         THEN <<parse_row(Head(rows)).v>> \o collect_rows_break(Tail(rows))
         ELSE <<>>

\* The for loop of read_csv_data (lines 72-81): the points of the rows that
\* parse, in file order.
RECURSIVE collect_rows(_)
collect_rows(rows) ==
    IF rows = <<>> THEN <<>>
    ELSE IF parse_row(Head(rows)).ok
         THEN <<parse_row(Head(rows)).v>> \o collect_rows(Tail(rows))
         ELSE collect_rows(Tail(rows))

\* Mutant: the list is returned whole, however long.
keep_all(data) == data

\* Mutant: keeps the first MAX_POINTS points (data[:MAX_POINTS]).
keep_first(data) ==
    IF Len(data) > MAX_POINTS THEN SubSeq(data, 1, MAX_POINTS) ELSE data

\* data[-MAX_POINTS:] when len(data) > MAX_POINTS (lines 84-85).
keep_last(data) ==
    IF Len(data) > MAX_POINTS
    THEN SubSeq(data, Len(data) - MAX_POINTS + 1, Len(data))
    ELSE data

\* The state of the path CSV_FILE_PATH in the file system.
AbsentFile == [status |-> "absent", mtime |-> 0, rows |-> <<>>]
PresentFile(m, rows) == [status |-> "present", mtime |-> m, rows |-> rows]

\* read_csv_data (lines 65-94).  open() raises FileNotFoundError when the
\* path is absent (lines 89-91) and another OSError when it cannot be opened
\* (lines 92-94); both return [].
read_csv_data(f) ==
    IF f.status = "present" THEN keep_last(collect_rows(f.rows)) ELSE <<>>


(***************************************************************************)
(* The server.                                                             *)
(***************************************************************************)
VARIABLES
    file,           \* the state of CSV_FILE_PATH in the file system
    nmods,          \* how many times the environment has changed the file
    server,         \* "running" | "stopped"
    pc,             \* per session: where its file_monitor coroutine is
    conn,           \* per session: the state of its WebSocket connection
    last_modified,  \* per session: local variable of file_monitor
    last_data,      \* per session: local variable of file_monitor
    frames,         \* per session: the frames sent on it, oldest first
    tick,           \* per session: record of its current / latest tick
    misses,         \* per session: consecutive not-found ticks (saturating)
    born_absent,    \* per session: the file was absent when it connected
    in_rows,        \* ParseSpec: the rows given to read_csv_data
    ret             \* ParseSpec: what read_csv_data returned

vars == <<file, nmods, server, pc, conn, last_modified, last_data, frames,
          tick, misses, born_absent, in_rows, ret>>
serverVars == <<file, nmods, server, pc, conn, last_modified, last_data,
                frames, tick, misses, born_absent>>
parseVars == <<in_rows, ret>>

\* CSV_FILE_PATH (line 30): the directories, and the file name split at its
\* dots.
CSV_FILE_PATH ==
    [dirs |-> <<"Users", "khamitovdr", "bio_tools", "examples",
                "experiment_results_20251019_193343">>,
     name |-> <<"Optical density", "csv">>]

\* get_measurement_name (lines 35-37): Path(file_path).stem, the file name
\* without its last suffix.  A name with no dot, or whose only dot leads it,
\* has no suffix.
get_measurement_name(file_path) ==
    LET n == file_path.name IN
    IF Len(n) = 1 \/ (Len(n) = 2 /\ n[1] = "") THEN n
    ELSE SubSeq(n, 1, Len(n) - 1)

\* Python's == on floats: NaN equals nothing, itself included.
float_eq(a, b) == ~a.nan /\ ~b.nan /\ a.t = b.t

\* Python's != on the lists data and last_data (line 123).  Each call of
\* read_csv_data builds new list and float objects, so no two elements are
\* the same object and the comparison is element by element.
list_ne(a, b) ==
    \/ Len(a) # Len(b)
    \/ \E i \in 1..Len(a) : a[i][1] # b[i][1] \/ ~float_eq(a[i][2], b[i][2])

\* json.dumps(message) for message = {measurement_name: data} (lines 127-131).
json_dumps(name, data) == [key |-> name, series |-> data]

\* Rows and file contents the environment writes.
RowA == <<Field("num", 10), Field("num", 10)>>
RowB == <<Field("num", 25), Field("num", 20)>>
RowC == <<Field("iso", 30), Field("neg", 5)>>
RowNaN == <<Field("num", 10), Field("nan", 0)>>
RowBad == <<Field("num", 40), Field("text", 0)>>
\* <<RowBad>> parses to no point, <<RowA>> to one, and the third to three, of
\* which the last MAX_POINTS are kept, one of them with a NaN value.
Contents == { <<RowBad>>, <<RowA>>, <<RowC, RowB, RowNaN>> }

\* ParseSpec: read_csv_data has not been called / has returned data.
NotCalled == [called |-> FALSE, data |-> <<>>]
Called(data) == [called |-> TRUE, data |-> data]

Active == {"poll", "read", "sleep"}
Closed == {"disconnected", "errored"}

NoTick == [old |-> 0, out |-> "none", waits |-> 0]

Init ==
    /\ file = AbsentFile
    /\ nmods = 0
    /\ server = "running"
    /\ pc = [s \in Sessions |-> "idle"]
    /\ conn = [s \in Sessions |-> "none"]
    /\ last_modified = [s \in Sessions |-> 0]
    /\ last_data = [s \in Sessions |-> <<>>]
    /\ frames = [s \in Sessions |-> <<>>]
    /\ tick = [s \in Sessions |-> NoTick]
    /\ misses = [s \in Sessions |-> 0]
    /\ born_absent = [s \in Sessions |-> FALSE]
    /\ in_rows = <<>>
    /\ ret = NotCalled

(***************************************************************************)
(* The environment: other processes write, touch, remove the file or make  *)
(* it unreadable; clients close their connections; links break.            *)
(***************************************************************************)
CreateFile(m, c) ==
    /\ nmods < MaxMods
    /\ file.status = "absent"
    /\ file' = PresentFile(m, c)
    /\ nmods' = nmods + 1
    /\ UNCHANGED <<server, pc, conn, last_modified, last_data, frames, tick,
                   misses, born_absent, in_rows, ret>>

\* Any write: new content, a new modification time, or both.  The time may
\* stay the same (two writes within the clock's granularity, or a writer
\* that restores the time) and may go backwards.
WriteFile(m, c) ==
    /\ nmods < MaxMods
    /\ file.status = "present"
    /\ PresentFile(m, c) # file
    /\ file' = PresentFile(m, c)
    /\ nmods' = nmods + 1
    /\ UNCHANGED <<server, pc, conn, last_modified, last_data, frames, tick,
                   misses, born_absent, in_rows, ret>>

DeleteFile ==
    /\ nmods < MaxMods
    /\ file.status = "present"
    /\ file' = AbsentFile
    /\ nmods' = nmods + 1
    /\ UNCHANGED <<server, pc, conn, last_modified, last_data, frames, tick,
                   misses, born_absent, in_rows, ret>>

\* The file stays but can no longer be examined (permissions of the file or
\* of a directory above it): os.path.getmtime and open raise an OSError that
\* is not FileNotFoundError.
DenyAccess ==
    /\ nmods < MaxMods
    /\ file.status = "present"
    /\ file' = [file EXCEPT !.status = "denied"]
    /\ nmods' = nmods + 1
    /\ UNCHANGED <<server, pc, conn, last_modified, last_data, frames, tick,
                   misses, born_absent, in_rows, ret>>

ClientClose(s) ==
    /\ conn[s] = "open"
    /\ conn' = [conn EXCEPT ![s] = "closed"]
    /\ UNCHANGED <<file, nmods, server, pc, last_modified, last_data, frames,
                   tick, misses, born_absent, in_rows, ret>>

(***************************************************************************)
(* The server: main accepts connections; each connection runs its own      *)
(* file_monitor coroutine.  A coroutine's steps are its file-system calls   *)
(* and its awaits:                                                         *)
(*   "idle"          no connection yet                                     *)
(*   "poll"          about to call os.path.getmtime (line 109)             *)
(*   "read"          the time differed and was stored (lines 116-117);     *)
(*                   about to call read_csv_data (line 120)                *)
(*   "sleep"         in asyncio.sleep(CHECK_INTERVAL) (line 112 or 135)    *)
(*   "disconnected"  left through except ConnectionClosed (lines 137-138)  *)
(*   "errored"       left through except Exception (lines 139-140)         *)
(*   "cancelled"     cancelled when the server was interrupted             *)
(* The environment may change the file between the two file-system calls   *)
(* of one tick.                                                            *)
(***************************************************************************)

\* Mutant: the loop starts with a sleep.
loop_entry_sleep == "sleep"

\* The first statement of the loop body (lines 106-109) is the call of
\* os.path.getmtime; no sleep precedes it.
loop_entry == "poll"

\* websockets.serve (lines 160-161) accepts a connection and starts
\* file_monitor on it (lines 97-105).
Connect(s) ==
    /\ server = "running"
    /\ pc[s] = "idle"
    /\ pc' = [pc EXCEPT ![s] = loop_entry]
    /\ conn' = [conn EXCEPT ![s] = "open"]
    /\ last_modified' = [last_modified EXCEPT ![s] = 0]
    /\ last_data' = [last_data EXCEPT ![s] = <<>>]
    /\ born_absent' = [born_absent EXCEPT ![s] = (file.status = "absent")]
    /\ UNCHANGED <<file, nmods, server, frames, tick, misses, in_rows, ret>>

\* current_modified != last_modified (line 116).
marker_changed(current_modified, last) == current_modified # last

\* Mutant: the exception is caught inside the loop, which goes on to its
\* sleep.
on_exception_retry(kind) == "sleep"

\* Where an exception raised in the loop takes the coroutine: ConnectionClosed
\* to line 138, any other Exception to line 140.  Either way file_monitor
\* returns.
on_exception(kind) ==
    IF kind = "ConnectionClosed" THEN "disconnected" ELSE "errored"

\* Mutant: the exception leaves the handler and ends every running session.
terminate_all(s, kind) ==
    [t \in Sessions |-> IF pc[t] \in Active THEN on_exception(kind) ELSE pc[t]]

\* The try statement of file_monitor (lines 105, 137-140) belongs to one
\* coroutine: an exception ends that coroutine only.
terminate(s, kind) == [pc EXCEPT ![s] = on_exception(kind)]

\* Mutant: FileNotFoundError is not caught at line 110 and reaches line 139.
after_not_found_raise == "errored"

\* except FileNotFoundError (lines 110-113): sleep, then continue.
after_not_found == "sleep"

\* Mutant: last_data is one module-level variable shared by all sessions.
store_last_data_shared(s, data) == [t \in Sessions |-> data]

\* last_data = data (line 124): a local variable of the coroutine.
store_last_data(s, data) == [last_data EXCEPT ![s] = data]

\* Lines 108-117: read the modification time and compare it with the stored
\* one.
PollStep(s) ==
    /\ pc[s] = "poll"
    /\ CASE file.status = "absent" ->
              \* FileNotFoundError (lines 110-113)
              /\ pc' = [pc EXCEPT ![s] = after_not_found]
              /\ tick' = [tick EXCEPT ![s] = [old |-> 0, out |-> "notfound", waits |-> 0]]
              /\ misses' = [misses EXCEPT ![s] =
                              IF @ < MaxMisses THEN @ + 1 ELSE @]
              /\ UNCHANGED last_modified
         [] file.status = "denied" ->
              \* another OSError: not caught at line 110, caught at line 139
              /\ pc' = terminate(s, "OSError")
              /\ tick' = [tick EXCEPT ![s] = [old |-> 0, out |-> "error", waits |-> 0]]
              /\ misses' = [misses EXCEPT ![s] = 0]
              /\ UNCHANGED last_modified
         [] OTHER ->
              /\ misses' = [misses EXCEPT ![s] = 0]
              /\ IF marker_changed(file.mtime, last_modified[s])
                 THEN /\ last_modified' = [last_modified EXCEPT ![s] = file.mtime]
                      /\ pc' = [pc EXCEPT ![s] = "read"]
                      /\ tick' = [tick EXCEPT ![s] = [old |-> last_modified[s],
                                      out |-> "changed", waits |-> 0]]
                 ELSE /\ pc' = [pc EXCEPT ![s] = "sleep"]
                      /\ tick' = [tick EXCEPT ![s] = [old |-> 0, out |-> "unchanged", waits |-> 0]]
                      /\ UNCHANGED last_modified
    /\ UNCHANGED <<file, nmods, server, conn, last_data, frames, born_absent,
                   in_rows, ret>>

\* What websocket.send raises once the connection is no longer open:
\* ConnectionClosed, or another exception when the write itself fails.
SendErrors == {"ConnectionClosed", "OSError"}

\* "data and data != last_data" (line 123).
should_push(data, last) == data # <<>> /\ list_ne(data, last)

\* Lines 120-131: re-read the file and push when the data is new.  last_data
\* is assigned (line 124) before websocket.send is awaited (line 131); send
\* raises on a connection that is no longer open.
ReadStep(s) ==
    /\ pc[s] = "read"
    /\ LET data == read_csv_data(file) IN
       IF should_push(data, last_data[s])
       THEN /\ last_data' = store_last_data(s, data)
            /\ CASE conn[s] = "open" ->
                      /\ frames' = [frames EXCEPT ![s] = Append(@,
                             json_dumps(get_measurement_name(CSV_FILE_PATH), data))]
                      /\ pc' = [pc EXCEPT ![s] = "sleep"]
                      /\ tick' = [tick EXCEPT ![s] = [old |-> 0, out |-> "pushed", waits |-> 0]]
                 [] OTHER ->
                      /\ \E kind \in SendErrors : pc' = terminate(s, kind)
                      /\ tick' = [tick EXCEPT ![s] = [old |-> 0, out |-> "sendfailed", waits |-> 0]]
                      /\ UNCHANGED frames
       ELSE /\ pc' = [pc EXCEPT ![s] = "sleep"]
            /\ tick' = [tick EXCEPT ![s] = [old |-> 0, out |-> "suppressed", waits |-> 0]]
            /\ UNCHANGED <<last_data, frames>>
    /\ UNCHANGED <<file, nmods, server, conn, last_modified, misses, born_absent,
                   in_rows, ret>>

\* Mutant: the sleep of line 112 is not followed by continue, so that a second
\* sleep follows the first.
after_sleep_again == "sleep"

\* After the sleep of line 112 comes continue (line 113) and the sleep of line
\* 135 is the last statement of the loop body: both lead to line 108.
after_sleep == "poll"

\* asyncio.sleep(CHECK_INTERVAL) returns (lines 112-113 and 135): back to the
\* top of the loop.  The sleep does not look at the connection.  tick.waits
\* counts, up to two, the sleeps completed since the last call of getmtime.
Wake(s) ==
    /\ pc[s] = "sleep"
    /\ pc' = [pc EXCEPT ![s] = after_sleep]
    /\ tick' = [tick EXCEPT ![s].waits = IF @ < 2 THEN @ + 1 ELSE @]
    /\ UNCHANGED <<file, nmods, server, conn, last_modified, last_data,
                   frames, misses, born_absent, in_rows, ret>>

\* Ctrl+C (lines 165-168): asyncio.run cancels every task and the server
\* stops.  CancelledError is not an Exception, so no handler of file_monitor
\* catches it; the coroutines and their local variables are gone and the
\* connections are closed.
Interrupt ==
    /\ server = "running"
    /\ server' = "stopped"
    /\ pc' = [s \in Sessions |-> IF pc[s] \in Active THEN "cancelled" ELSE pc[s]]
    /\ conn' = [s \in Sessions |-> IF conn[s] = "open" THEN "closed" ELSE conn[s]]
    /\ last_modified' = [s \in Sessions |-> IF pc[s] \in Active THEN 0 ELSE last_modified[s]]
    /\ last_data' = [s \in Sessions |-> IF pc[s] \in Active THEN <<>> ELSE last_data[s]]
    /\ tick' = [s \in Sessions |-> IF pc[s] \in Active THEN NoTick ELSE tick[s]]
    /\ misses' = [s \in Sessions |-> IF pc[s] \in Active THEN 0 ELSE misses[s]]
    /\ UNCHANGED <<file, nmods, frames, born_absent, in_rows, ret>>

SessionStep(s) == PollStep(s) \/ ReadStep(s) \/ Wake(s)

Next ==
    \/ \E m \in Mtimes, c \in Contents : CreateFile(m, c)
    \/ \E m \in Mtimes, c \in Contents : WriteFile(m, c)
    \/ DeleteFile
    \/ DenyAccess
    \/ \E s \in Sessions : ClientClose(s)
    \/ \E s \in Sessions : Connect(s)
    \/ \E s \in Sessions : PollStep(s)
    \/ \E s \in Sessions : ReadStep(s)
    \/ \E s \in Sessions : Wake(s)
    \/ Interrupt

Spec == Init /\ [][Next]_vars

\* The event loop runs every coroutine that is ready: a sleep that has
\* elapsed returns and the synchronous code up to the next await runs.
FairSpec == Spec /\ \A s \in Sessions : WF_vars(SessionStep(s))

(***************************************************************************)
(* ParseSpec: read_csv_data applied to every file of at most MaxRows rows   *)
(* drawn from RowSamples.                                                  *)
(***************************************************************************)
RowSamples ==
    { <<Field("num", 10), Field("num", 10)>>,      \* "1,1"        -> [1, 1.0]
      <<Field("num", 25), Field("neg", 5)>>,       \* "2.5,-0.5"   -> [2, -0.5]
      <<Field("iso", 30), Field("nan", 0)>>,       \* calendar,nan -> [3, nan]
      <<Field("iso", 17), Field("num", 10)>>,      \* calendar,1   -> [1, 1.0]
      <<Field("num", 30), Field("num", 30), Field("text", 0)>>,  \* 3 fields
      <<Field("num", 10)>>,                        \* one field
      <<Field("neg", 10), Field("num", 10)>>,      \* "-1,1"
      <<Field("nan", 0), Field("num", 10)>>,       \* "nan,1"
      <<Field("num", 10), Field("text", 0)>> }     \* "1,abc"

RECURSIVE SeqsUpTo(_, _)
SeqsUpTo(S, n) ==
    IF n = 0 THEN { <<>> }
    ELSE LET shorter == SeqsUpTo(S, n - 1) IN
         shorter \cup { Append(q, x) : q \in shorter, x \in S }

InitParse ==
    /\ file = AbsentFile
    /\ nmods = 0
    /\ server = "running"
    /\ pc = [s \in Sessions |-> "idle"]
    /\ conn = [s \in Sessions |-> "none"]
    /\ last_modified = [s \in Sessions |-> 0]
    /\ last_data = [s \in Sessions |-> <<>>]
    /\ frames = [s \in Sessions |-> <<>>]
    /\ tick = [s \in Sessions |-> NoTick]
    /\ misses = [s \in Sessions |-> 0]
    /\ born_absent = [s \in Sessions |-> FALSE]
    /\ in_rows \in SeqsUpTo(RowSamples, MaxRows)
    /\ ret = NotCalled

\* data = read_csv_data(CSV_FILE_PATH) on a file that holds in_rows.
CallRead ==
    /\ ~ret.called
    /\ ret' = Called(read_csv_data(PresentFile(1, in_rows)))
    /\ UNCHANGED <<in_rows, file, nmods, server, pc, conn, last_modified,
                   last_data, frames, tick, misses, born_absent>>

NextParse == CallRead

ParseSpec == InitParse /\ [][NextParse]_vars

(***************************************************************************)
(* Properties.                                                             *)
(***************************************************************************)
\* The frame that carries data under the measurement name of CSV_FILE_PATH.
FrameOf(data) == [key |-> <<"Optical density">>, series |-> data]

\* Session s takes a step of its own loop (a poll or a re-read).
TickStep(s) ==
    pc[s] \in {"poll", "read"} /\ pc'[s] # pc[s] /\ server' = server

\* C1: a frame is sent in a tick only if the modification time read in the
\* tick differs from the one the session had stored, the data parsed in the
\* tick is not empty, and that data is not identical to the data the session
\* last pushed; in particular a tick whose re-parsed content is identical to
\* the last pushed content sends no frame.
C1_PushOnlyOnNewData ==
    [][\A s \in Sessions :
          frames'[s] # frames[s] =>
             /\ pc[s] = "read"
             /\ last_modified[s] # tick[s].old
             /\ read_csv_data(file) # <<>>
             /\ read_csv_data(file) # last_data[s]]_vars

\* C3: for a session connected while the file is absent, no frame is sent
\* before the file is created; once it is created with rows that parse to a
\* non-empty series and is not modified again, the session sends exactly one
\* frame, which carries the parsed rows under the measurement name: never
\* more than one, and one as soon as the session has completed a tick that
\* saw the file.
C3_OneFrameAfterCreation ==
    \A s \in Sessions :
       born_absent[s] =>
          /\ nmods = 0 => frames[s] = <<>>
          /\ (nmods = 1 /\ file.status = "present" /\ read_csv_data(file) # <<>>) =>
                /\ Len(frames[s]) <= 1
                /\ frames[s] # <<>> => frames[s][1] = FrameOf(read_csv_data(file))
                /\ ( /\ conn[s] = "open"
                     /\ pc[s] \in {"sleep", "poll"}
                     /\ tick[s].out \in {"unchanged", "pushed", "suppressed"} )
                   => Len(frames[s]) = 1

\* C4 as stated: in a tick that does not find the file, whether at the read
\* of the modification time or at the re-read, the session sends nothing,
\* raises nothing, goes to its sleep, and ends the tick with the stored
\* modification time and the last pushed data it began the tick with.
C4_NotFoundChangesNothing ==
    [][\A s \in Sessions :
          (TickStep(s) /\ file.status = "absent") =>
             /\ frames' = frames
             /\ pc'[s] = "sleep"
             /\ last_data'[s] = last_data[s]
             /\ last_modified'[s] =
                   (IF pc[s] = "read" THEN tick[s].old ELSE last_modified[s])]_vars

\* C4 amended: in a tick that does not find the file the session sends
\* nothing, raises nothing, keeps its last pushed data and goes to its sleep,
\* from which it polls again.  When the read of the modification time is
\* what fails, the stored time is unchanged; when the file vanishes between
\* that read and the re-read, the time read in this tick has been stored.
C4_NotFoundSkipsTick ==
    [][\A s \in Sessions :
          (TickStep(s) /\ file.status = "absent") =>
             /\ frames' = frames
             /\ pc'[s] = "sleep"
             /\ last_data'[s] = last_data[s]
             /\ last_modified'[s] = last_modified[s]
             /\ pc[s] = "read" => last_modified[s] # tick[s].old
             /\ pc[s] = "poll" => misses'[s] >= 1]_vars

\* Witness for C4: a session that has just skipped MaxMisses consecutive
\* ticks on the absent file and is asleep before its next poll.
C4_Witness ==
    \E s \in Sessions :
       /\ misses[s] = MaxMisses /\ pc[s] = "sleep" /\ tick[s].out = "notfound"
       /\ file.status = "absent" /\ frames[s] = <<>>

\* C7: once websocket.send has raised in a session (the connection is no
\* longer open), the session leaves the loop without having sent the frame,
\* and a session that has left the loop stays as it is: no further frame, no
\* further poll, no return to the loop.
C7_ClosedIsFinal ==
    [][\A s \in Sessions :
          /\ ( /\ pc[s] = "read" /\ pc'[s] # pc[s] /\ server' = server
               /\ conn[s] # "open"
               /\ should_push(read_csv_data(file), last_data[s]) )
             => (pc'[s] \in Closed /\ frames'[s] = frames[s])
          /\ pc[s] \in Closed =>
               /\ pc'[s] = pc[s]
               /\ frames'[s] = frames[s]
               /\ last_modified'[s] = last_modified[s]
               /\ last_data'[s] = last_data[s]
               /\ tick'[s] = tick[s]]_vars

\* Witness for C7: a session that left the loop on a failed send, while the
\* file has since changed to a state that session has not polled.
C7_Witness ==
    \E s \in Sessions :
       /\ pc[s] \in Closed /\ tick[s].out = "sendfailed"
       /\ file.status = "present" /\ file.mtime # last_modified[s]
       /\ read_csv_data(file) # <<>>

\* C10: a step of one session changes neither the stored modification time
\* nor the last pushed data of any other session, and never the file.
C10_NoSharedState ==
    [][\A s \in Sessions :
          (pc'[s] # pc[s] /\ server' = server) =>
             /\ file' = file
             /\ nmods' = nmods
             /\ \A t \in Sessions \ {s} :
                   /\ last_modified'[t] = last_modified[t]
                   /\ last_data'[t] = last_data[t]]_vars

\* Witness for C10: two running sessions that have each pushed, and hold
\* different last pushed data and different stored modification times.
C10_Witness ==
    \E s, t \in Sessions :
       /\ pc[s] \in Active /\ pc[t] \in Active
       /\ last_data[s] # <<>> /\ last_data[t] # <<>>
       /\ last_data[s] # last_data[t]
       /\ last_modified[s] # last_modified[t]

\* The environment has made its last change: the file stays as it is.
Stable == nmods = MaxMods

\* The last frame sent on s carries data.
Carries(s, data) ==
    frames[s] # <<>> /\ frames[s][Len(frames[s])] = FrameOf(data)

\* C2: for a session whose connection stays open and that has pushed an
\* earlier dataset, once the file has changed to a non-empty parsed dataset
\* and no longer changes, the session eventually has sent a frame carrying
\* that dataset as its last frame.
C2_SendsWheneverFileChanges ==
    \A s \in Sessions :
       []( ( /\ Stable /\ file.status = "present"
             /\ read_csv_data(file) # <<>>
             /\ frames[s] # <<>>
             /\ pc[s] \in Active /\ conn[s] = "open" )
           => <>(conn[s] # "open" \/ Carries(s, read_csv_data(file))) )

\* What the code does guarantee (a lemma, not the claim): the same for any
\* running session, provided the file's modification time differs from the
\* one the session has stored (0 before its first read).
SendsWhenMarkerChanges ==
    \A s \in Sessions :
       []( ( /\ Stable /\ file.status = "present"
             /\ read_csv_data(file) # <<>>
             /\ file.mtime # last_modified[s]
             /\ pc[s] \in Active /\ conn[s] = "open" )
           => <>(conn[s] # "open" \/ Carries(s, read_csv_data(file))) )

\* The case of C2 happens: the file has changed for the last time, and a
\* session with an open connection has sent a second frame, which carries the
\* new dataset.
C2_Witness ==
    \E s \in Sessions :
       /\ Stable /\ file.status = "present" /\ conn[s] = "open"
       /\ pc[s] \in Active /\ Len(frames[s]) >= 2
       /\ frames[s][1] # frames[s][2]
       /\ Carries(s, read_csv_data(file))

\* C8: after the client has closed the connection the session is released:
\* it does not keep running its loop for ever.
C8_ReleasedAfterClose ==
    \A s \in Sessions : (conn[s] = "closed") ~> (pc[s] \notin Active)

\* C9: a session that ends on an exception (a closed connection, a failed
\* write, an error of the file system) changes nothing of any other session
\* and does not stop the server; while the server runs, whatever has
\* happened to other sessions, a new connection can be accepted and every
\* session in its loop can take its next step.
C9_FailuresAreLocal ==
    /\ [][\A s \in Sessions :
             (pc[s] \in Active /\ pc'[s] \in Closed) =>
                /\ server' = server
                /\ \A t \in Sessions \ {s} :
                      /\ pc'[t] = pc[t]
                      /\ conn'[t] = conn[t]
                      /\ last_modified'[t] = last_modified[t]
                      /\ last_data'[t] = last_data[t]
                      /\ frames'[t] = frames[t]]_vars
    /\ [](server = "running" =>
            \A t \in Sessions :
               /\ pc[t] = "idle" => ENABLED Connect(t)
               /\ pc[t] \in Active => ENABLED SessionStep(t))

\* Witness for C9: one session has ended on an exception, and another, still
\* in its loop, has since pushed a frame the first never sent.
C9_Witness ==
    \E s, t \in Sessions :
       /\ pc[s] \in Closed /\ pc[t] \in Active /\ server = "running"
       /\ Len(frames[t]) > Len(frames[s])
       /\ file.status = "present" /\ Carries(t, read_csv_data(file))

(***************************************************************************)
(* Properties of read_csv_data (ParseSpec).                                *)
(***************************************************************************)
\* The positions of the rows of in_rows that parse.
ValidIdx == { i \in 1..Len(in_rows) : parse_row(in_rows[i]).ok }

\* The number of valid rows after position i.
ValidAfter(i) == Cardinality({ x \in ValidIdx : x > i })

\* The position of the q-th valid row.
NthValid(q) == CHOOSE i \in ValidIdx : Cardinality({ x \in ValidIdx : x <= i }) = q

MinOf(a, b) == IF a < b THEN a ELSE b

\* C5: read_csv_data returns the records that parse, in file order, cut to
\* the last min(n, MAX_POINTS) of them, n being the number of valid records.
C5_LastValidRowsInFileOrder ==
    ret.called =>
       LET n == Cardinality(ValidIdx)
           k == MinOf(n, MAX_POINTS)
       IN /\ Len(ret.data) = k
          /\ \A j \in 1..k :
                ret.data[j] = parse_row(in_rows[NthValid(n - k + j)]).v

\* Witness for C5: more than MAX_POINTS valid rows, cut to MAX_POINTS, the
\* kept ones with timestamps that decrease and then repeat in file order.
C5_Witness ==
    /\ ret.called
    /\ Cardinality(ValidIdx) > MAX_POINTS
    /\ Len(in_rows) > Cardinality(ValidIdx)
    /\ Len(ret.data) = MAX_POINTS
    /\ \E j \in 1..(Len(ret.data) - 1) : ret.data[j][1] > ret.data[j + 1][1]

\* C6 as stated: whenever the file holds a malformed record, the read still
\* returns, and every valid record of the file is in the result.
C6_EveryValidRowIncluded ==
    (ret.called /\ ValidIdx # 1..Len(in_rows)) =>
       \A i \in ValidIdx :
          \E j \in 1..Len(ret.data) : ret.data[j] = parse_row(in_rows[i]).v

\* C6 amended: whenever the file holds a malformed record, the read still
\* returns, and every valid record that is among the last MAX_POINTS valid
\* records of the file is in the result, at its place in file order.
C6_SkippedRowDropsNoOther ==
    (ret.called /\ ValidIdx # 1..Len(in_rows)) =>
       \A i \in ValidIdx :
          ValidAfter(i) < MAX_POINTS =>
             /\ Len(ret.data) > ValidAfter(i)
             /\ ret.data[Len(ret.data) - ValidAfter(i)] = parse_row(in_rows[i]).v

\* Witness for C6: a malformed record with a valid record before it and one
\* after it, both returned.
C6_Witness ==
    /\ ret.called
    /\ \E i \in 1..Len(in_rows) :
          /\ i \notin ValidIdx
          /\ (i - 1) \in ValidIdx /\ (i + 1) \in ValidIdx
          /\ Cardinality(ValidIdx) = 2
          /\ ret.data = <<parse_row(in_rows[i - 1]).v, parse_row(in_rows[i + 1]).v>>
          /\ ret.data[1] # ret.data[2]

(***************************************************************************)
(* Properties of the sessions' state and of the loop's control flow.       *)
(***************************************************************************)

\* C11: in every reachable state, the series of every frame sent and the
\* last pushed data of every session have at most MAX_POINTS points.
C11_AtMostMaxPoints ==
    \A s \in Sessions :
       /\ Len(last_data[s]) <= MAX_POINTS
       /\ \A i \in 1..Len(frames[s]) : Len(frames[s][i].series) <= MAX_POINTS

\* A session has pushed exactly MAX_POINTS points read from a file that holds
\* more valid rows than that.
C11_Witness ==
    \E s \in Sessions :
       /\ file.status = "present"
       /\ Len(collect_rows(file.rows)) > MAX_POINTS
       /\ frames[s] # <<>>
       /\ Len(frames[s][Len(frames[s])].series) = MAX_POINTS
       /\ last_data[s] = read_csv_data(file)

\* C12: in a tick where the modification time changed but the parsed data is
\* empty or identical to the last pushed data, the session has stored the
\* new time, leaves its last pushed data unchanged and sends nothing (so that
\* a following tick that reads the same time does not re-read the file); in
\* a tick where the time is unchanged the session does not re-read the file
\* and changes none of its state.
C12_QuietTickKeepsData ==
    [][\A s \in Sessions :
          /\ ( /\ TickStep(s)
               /\ pc[s] = "read"
               /\ \/ read_csv_data(file) = <<>>
                  \/ read_csv_data(file) = last_data[s] )
             => /\ last_modified[s] # tick[s].old
                /\ last_modified'[s] = last_modified[s]
                /\ last_data'[s] = last_data[s]
                /\ frames'[s] = frames[s]
          /\ ( /\ TickStep(s)
               /\ pc[s] = "poll"
               /\ file.status = "present"
               /\ file.mtime = last_modified[s] )
             => /\ pc'[s] = "sleep"
                /\ last_modified'[s] = last_modified[s]
                /\ last_data'[s] = last_data[s]
                /\ frames'[s] = frames[s]]_vars

(***************************************************************************)
(* Which records the parser drops.                                         *)
(***************************************************************************)

\* A timestamp field that is a numeric value or a calendar timestamp, and a
\* value field that is numeric, by what the text denotes and not by what the
\* parser accepts.
NumericText(f) == f.k \in {"num", "neg"}
CalendarText(f) == f.k = "iso"
WellFormed(row) ==
    /\ Len(row) >= 2
    /\ NumericText(row[1]) \/ CalendarText(row[1])
    /\ NumericText(row[2])

\* The milliseconds a well-formed timestamp field denotes (a numeric one
\* taken directly, truncated to an integer) and the value a numeric field
\* denotes.
MillisOf(f) == IF f.k = "neg" THEN 0 - (f.t \div 10) ELSE f.t \div 10
ValueOf(f) == IF f.k = "neg" THEN Fl(0 - f.t) ELSE Fl(f.t)

WellFormedIdx == { i \in 1..Len(in_rows) : WellFormed(in_rows[i]) }

\* C13: the parser drops a record only when its timestamp field is neither
\* a calendar timestamp nor a numeric value or its value field is not
\* numeric: every record with a numeric or calendar timestamp and a numeric
\* value is in the parsed result, with the milliseconds its timestamp
\* denotes.  (Files of at most MAX_POINTS records, which are not truncated.)
C13_OnlyMalformedDropped ==
    (ret.called /\ Len(in_rows) <= MAX_POINTS) =>
       /\ Len(ret.data) >= Cardinality(WellFormedIdx)
       /\ \A i \in WellFormedIdx :
             \E j \in 1..Len(ret.data) :
                ret.data[j] = <<MillisOf(in_rows[i][1]), ValueOf(in_rows[i][2])>>

(***************************************************************************)
(* The order of polls and sleeps in the loop.                              *)
(***************************************************************************)

\* C14 as stated: a session waits one interval before its first call of
\* os.path.getmtime: a session about to make its first poll has completed
\* one sleep.
C14_WaitsBeforeFirstPoll ==
    \A s \in Sessions :
       (pc[s] = "poll" /\ tick[s].out = "none") => tick[s].waits = 1

\* C14 amended: the first event of a session is a poll: a session in its
\* loop that has not polled yet is at the call of os.path.getmtime and has
\* not slept.
C14_PollsBeforeFirstWait ==
    \A s \in Sessions :
       (pc[s] \in Active /\ tick[s].out = "none") =>
          (pc[s] = "poll" /\ tick[s].waits = 0)

\* A session has just connected while the file exists and is about to poll
\* it.
C14_Witness ==
    \E s \in Sessions :
       /\ pc[s] = "poll" /\ tick[s].out = "none" /\ conn[s] = "open"
       /\ file.status = "present"

\* C15: within one session exactly one sleep lies between any two consecutive
\* polls of the modification time, on every path through the loop: a session
\* about to poll again has completed exactly one sleep since its last poll,
\* and a session that has polled and not yet reached its next poll has
\* completed none.
C15_OneWaitBetweenPolls ==
    \A s \in Sessions :
       /\ (pc[s] = "poll" /\ tick[s].out # "none") =>
             /\ tick[s].waits = 1
             /\ tick[s].out \in {"notfound", "unchanged", "suppressed", "pushed"}
       /\ pc[s] \in {"read", "sleep"} => tick[s].waits = 0

\* One session is about to poll again after a tick that did not find the
\* file, another after a tick that pushed.
C15_Witness ==
    \E s, t \in Sessions :
       /\ pc[s] = "poll" /\ tick[s].out = "notfound" /\ tick[s].waits = 1
       /\ pc[t] = "poll" /\ tick[t].out = "pushed" /\ tick[t].waits = 1

\* C16: in every reachable state the last pushed data of a session in its
\* loop is the data of the most recent frame it sent, or is empty if it has
\* sent none, and no two consecutive frames of a session carry identical
\* data.
C16_LastDataIsLastFrame ==
    \A s \in Sessions :
       /\ pc[s] \in Active =>
             last_data[s] = IF frames[s] = <<>> THEN <<>>
                            ELSE frames[s][Len(frames[s])].series
       /\ \A i \in 1..(Len(frames[s]) - 1) :
             frames[s][i].series # frames[s][i + 1].series

\* C17: a session that connects while the file exists with non-empty parsed
\* content sends a frame with that content on its first poll, whatever other
\* sessions have sent before and although the file has not been modified
\* since: its first poll goes on to the re-read, and the re-read of a session
\* that has sent nothing sends the content it parses.
C17_LateJoinerGetsSnapshot ==
    [][\A s \in Sessions :
          ( /\ TickStep(s)
            /\ conn[s] = "open"
            /\ ~born_absent[s]
            /\ frames[s] = <<>>
            /\ file.status = "present"
            /\ read_csv_data(file) # <<>> )
          => /\ (pc[s] = "poll" /\ tick[s].out = "none") => pc'[s] = "read"
             /\ pc[s] = "read" =>
                   frames'[s] = <<FrameOf(read_csv_data(file))>>]_vars

====
